---- MODULE Spec2Model ----
(***************************************************************************)
(* A model of importnb's loader (src/importnb/loader.py): the cell         *)
(* translator (NotebookLoader.visit), the module compiler                  *)
(* (source_to_code), the execution wrapper (advanced_exec_module), the     *)
(* Notebook loader's configuration and create_module, and the front end    *)
(* from_resource with its ExitStack, lazy loading and nested loads.        *)
(*                                                                         *)
(* Every Python value is modelled as a string ("None", "1", the text of a  *)
(* markdown cell, an exception object by its repr), every mapping (a       *)
(* namespace, a globals dict, a cell) as a function whose DOMAIN is its    *)
(* key set.                                                                *)
(***************************************************************************)
EXTENDS Integers, Sequences, FiniteSets, TLC

\* Bounds of the model.
MaxCells == 2        \* cells per notebook document on disk
MaxAccess == 2       \* attribute accesses made on the returned module

None == "None"

(***************************************************************************)
(* Exceptions.                                                             *)
(***************************************************************************)

\* The exception objects that occur, by their repr.
ValueErrorBoom == "ValueError('boom')"
ImportNbExc == "ImportNbException()"
SyntaxErr == "SyntaxError('invalid syntax')"
CompileErr == "SyntaxError('return outside function')"
AttributeErr == "AttributeError('dict has no _fields')"
TypeErr == "TypeError('unexpected keyword argument')"
MalformedErr == "MalformedDocument()"

\* type(exc)
ClassOf(exc) ==
  CASE exc = ValueErrorBoom -> "ValueError"
    [] exc = ImportNbExc -> "ImportNbException"
    [] exc = SyntaxErr -> "SyntaxError"
    [] exc = CompileErr -> "SyntaxError"
    [] exc = AttributeErr -> "AttributeError"
    [] exc = TypeErr -> "TypeError"
    [] exc = MalformedErr -> "MalformedDocument"

\* class ImportNbException(BaseException): the direct base of each class.
Base(c) ==
  CASE c = "ImportNbException" -> "BaseException"
    [] c = "Exception" -> "BaseException"
    [] c \in {"BaseException", "object"} -> "object"
    [] OTHER -> "Exception"

\* issubclass(c, d)
IsSubclass(c, d) ==
  \/ c = d
  \/ Base(c) = d
  \/ Base(Base(c)) = d

\* Whether `except excs` catches exc (excs: a set of classes, as a tuple is).
Catches(excs, exc) == \E d \in excs : IsSubclass(ClassOf(exc), d)

(***************************************************************************)
(* Mappings.                                                               *)
(***************************************************************************)

\* dict.update
Update(d, e) ==
  [k \in DOMAIN d \cup DOMAIN e |-> IF k \in DOMAIN e THEN e[k] ELSE d[k]]

\* dict.get(k, default)
Get(d, k, default) == IF k \in DOMAIN d THEN d[k] ELSE default

EmptyDict == [k \in {} |-> None]

(***************************************************************************)
(* Notebook documents.  A line of a cell's source is [op, a, b, indent],   *)
(* indent its leading whitespace:                                          *)
(*   blank            an empty line                                        *)
(*   assign a b       the statement  a = b                                 *)
(*   raise a          the statement  raise <a>                             *)
(*   bad              text the parser rejects                              *)
(*   return           a statement the parser accepts, the compiler rejects *)
(*   load a           the statement  Notebook().from_filename(a)           *)
(*   text a           a line of markdown or raw text                       *)
(***************************************************************************)

Line(op, a, b) == [op |-> op, a |-> a, b |-> b, indent |-> 0]

\* The line with k more characters of leading whitespace.
Indented(line, k) == [line EXCEPT !.indent = @ + k]

TopFile == "top/nb.ipynb"
LibOk == "lib/ok.ipynb"
LibBoom == "lib/boom.ipynb"

CodeAssign ==
  [cell_type |-> "code", source |-> <<Line("assign", "x", "1")>>,
   metadata |-> [collapsed |-> "false"]]
CodeRaise ==
  [cell_type |-> "code",
   source |-> <<Line("blank", "", ""), Line("raise", ValueErrorBoom, ""),
                Line("assign", "y", "2")>>,
   metadata |-> [collapsed |-> "false", lineno |-> 5]]
CodeRaiseNb ==
  [cell_type |-> "code", source |-> <<Line("raise", ImportNbExc, "")>>,
   metadata |-> [collapsed |-> "false"]]
CodeBad ==
  [cell_type |-> "code", source |-> <<Line("assign", "x", "2"), Line("bad", "", "")>>,
   metadata |-> [collapsed |-> "false"]]
CodeIndented ==
  [cell_type |-> "code",
   source |-> <<Indented(Line("assign", "x", "3"), 4), Line("blank", "", ""),
                Indented(Line("assign", "z", "3"), 4)>>,
   metadata |-> [collapsed |-> "false"]]
CodeReturn ==
  [cell_type |-> "code", source |-> <<Line("return", "", "")>>,
   metadata |-> [collapsed |-> "false"]]
CodeLoadOk ==
  [cell_type |-> "code", source |-> <<Line("load", LibOk, "")>>,
   metadata |-> [collapsed |-> "false"]]
CodeLoadBoom ==
  [cell_type |-> "code",
   source |-> <<Line("load", LibBoom, ""), Line("assign", "y", "1")>>,
   metadata |-> [collapsed |-> "false", lineno |-> 3]]
Markdown ==
  [cell_type |-> "markdown", source |-> <<Line("text", "# Title", "")>>,
   metadata |-> [collapsed |-> "false"]]
RawSource ==
  [cell_type |-> "raw", source |-> <<Line("text", "raw", "")>>,
   metadata |-> [collapsed |-> "false"]]
RawNoSource ==
  [cell_type |-> "raw", metadata |-> [collapsed |-> "false"]]

Cells ==
  {CodeAssign, CodeRaise, CodeRaiseNb, CodeBad, CodeIndented, CodeReturn, CodeLoadOk,
   CodeLoadBoom, Markdown, RawSource, RawNoSource}

CellSeqs == UNION {[1..n -> Cells] : n \in 0..MaxCells}

\* File contents that are not JSON, and a JSON object without a "cells" key.
Garbage == [garbage |-> "{"]
NoCells == [nbformat |-> "4"]

\* What the file at TopFile may hold.
Documents == {[cells |-> cs] : cs \in CellSeqs} \cup {Garbage, NoCells}

\* The notebooks a cell can load: one that runs, one that raises ValueError.
ReadLib(file) ==
  IF file = LibOk
    THEN [cells |-> <<Markdown, CodeAssign>>]
    ELSE [cells |-> <<CodeAssign, CodeRaise>>]

\* str(Path(file).parent)
Parent(file) == IF file = TopFile THEN "top" ELSE "lib"

(***************************************************************************)
(* The cell translator and the module compiler.  A statement node is       *)
(* [op, a, b, lineno]; a translation or compilation result is [err, body], *)
(* err the exception raised (None: none).                                  *)
(***************************************************************************)

Ok(body) == [err |-> None, body |-> body]
Raised(exc) == [err |-> exc, body |-> <<>>]

\* The whitespace that opens every line of a text that is not empty.
CommonIndent(source) ==
  LET text == {i \in DOMAIN source : source[i].op # "blank"} IN
  IF text = {} THEN 0
  ELSE CHOOSE m \in {source[i].indent : i \in text} :
         \A i \in text : m <= source[i].indent

\* Notebook.format = dedent: the text normalisation applied to a code cell's
\* source; it removes the whitespace common to the lines and keeps every line
\* in its place.
format(source) ==
  [i \in DOMAIN source |->
     IF source[i].op = "blank" THEN source[i]
     ELSE [source[i] EXCEPT !.indent = @ - CommonIndent(source)]]

RECURSIVE join(_, _)
\* "".join(node["source"]) from entry i on
join(source, i) ==
  IF i > Len(source) THEN "" ELSE source[i].a \o join(source, i + 1)

RECURSIVE ParseFrom(_, _)
\* The statements of lines i.. of a source text: each carries the 1-based
\* number of its line; an empty line yields none.
ParseFrom(source, i) ==
  IF i > Len(source) THEN <<>>
  ELSE (IF source[i].op = "blank" THEN <<>>
        ELSE <<[op |-> source[i].op, a |-> source[i].a, b |-> source[i].b,
                lineno |-> i]>>)
       \o ParseFrom(source, i + 1)

\* ast.parse(source, path, "exec"): text that is no statement, or a statement
\* indented at module level, is a syntax error.
parse(source) ==
  IF \E i \in DOMAIN source :
       source[i].op = "bad" \/ (source[i].op # "blank" /\ source[i].indent # 0)
    THEN Raised(SyntaxErr)
    ELSE Ok(ParseFrom(source, 1))

\* ast.fix_missing_locations: a node without a line number (0) gets line 1.
fix_missing_locations(body) ==
  [i \in DOMAIN body |->
     IF body[i].lineno = 0 THEN [body[i] EXCEPT !.lineno = 1] ELSE body[i]]

\* increment_lineno with the cell's offset ignored.
increment_lineno_by_one(body, n) ==
  [i \in DOMAIN body |-> [body[i] EXCEPT !.lineno = @ + 1]]

\* ast.increment_lineno(node, n)
increment_lineno(body, n) ==
  [i \in DOMAIN body |-> [body[i] EXCEPT !.lineno = @ + n]]

\* NotebookLoader.visit on one cell (a dict without "cells").
visit_cell(cell) ==
  IF "source" \in DOMAIN cell
    THEN IF cell.cell_type = "markdown"
           THEN Ok(fix_missing_locations(
                  <<[op |-> "expr_str", a |-> join(cell.source, 1), b |-> "",
                     lineno |-> 0]>>))
         ELSE IF cell.cell_type = "code"
           THEN LET r == parse(format(cell.source)) IN
                IF r.err # None THEN r ELSE Ok(fix_missing_locations(r.body))
         \* neither branch rebinds node: NodeTransformer.visit gets the dict
         ELSE Raised(AttributeErr)
    ELSE Ok(<<>>)

RECURSIVE VisitCells(_, _)
\* The loop over node["cells"] from cell i on.
VisitCells(cells, i) ==
  IF i > Len(cells) THEN Ok(<<>>)
  ELSE LET r == visit_cell(cells[i]) IN
       IF r.err # None THEN r
       ELSE LET _node == increment_lineno(r.body, Get(cells[i].metadata, "lineno", 1))
                rest == VisitCells(cells, i + 1)
            IN  IF rest.err # None THEN rest ELSE Ok(_node \o rest.body)

\* decoder.loads(node.decode("utf-8"))
loads(bytes) ==
  IF "garbage" \in DOMAIN bytes THEN Raised(MalformedErr) ELSE Ok(<<bytes>>)

\* NotebookLoader.visit on the bytes of a notebook file.
visit(bytes) ==
  LET d == loads(bytes) IN
  IF d.err # None THEN Raised(d.err)
  ELSE LET node == d.body[1] IN
       IF "cells" \in DOMAIN node
         THEN LET r == VisitCells(node.cells, 1) IN
              IF r.err # None THEN r ELSE Ok(fix_missing_locations(r.body))
         ELSE Ok(<<>>)

\* compile with every string expression stored in __doc__.
compile_every_string_stored(body) ==
  IF \E i \in DOMAIN body : body[i].op = "return"
    THEN Raised(CompileErr)
    ELSE Ok([i \in DOMAIN body |->
               IF body[i].op = "expr_str"
                 THEN [body[i] EXCEPT !.op = "store_doc"]
                 ELSE body[i]])

\* compile(node, path, "exec"): a return at module level is rejected; a string
\* expression that is the module's first statement is its docstring, and the
\* code object stores it in __doc__.
compile(body) ==
  IF \E i \in DOMAIN body : body[i].op = "return"
    THEN Raised(CompileErr)
    ELSE Ok([i \in DOMAIN body |->
               IF i = 1 /\ body[i].op = "expr_str"
                 THEN [body[i] EXCEPT !.op = "store_doc"]
                 ELSE body[i]])

\* NotebookLoader.source_to_code
source_to_code(bytes) ==
  LET node == visit(bytes) IN
  IF node.err # None THEN node ELSE compile(node.body)

(***************************************************************************)
(* The loader and the state.                                               *)
(***************************************************************************)

\* Notebook.__init__: the options the loader keeps.
Notebook(exceptions, lazy, globals) ==
  [exceptions |-> exceptions, _lazy |-> lazy, globals |-> globals]

\* The default of the exceptions option: exceptions=ImportNbException.
DefaultExceptions == {"ImportNbException"}

ExceptionOptions ==
  {DefaultExceptions, {"ValueError"}, {"Exception"}, {"BaseException"}}

\* The globals mappings tried, with values v: none, an ordinary name, the
\* two names the execution wrapper sets itself.
GlobalsOptions(v) ==
  {EmptyDict, [x |-> v], [x |-> v, _exception |-> v, _capture |-> v]}

Loaders ==
  {Notebook(e, l, g) : e \in ExceptionOptions, l \in BOOLEAN, g \in GlobalsOptions("9")}

\* The value of `out`, the capture record of capture_output().
CapturedIO == "CapturedIO"

VARIABLES
  disk,       \* the contents of the file TopFile
  sys_path,   \* sys.path
  stack,      \* the loads in progress, innermost last: one frame per
              \* from_resource call or lazy execution
  call,       \* the arguments of the outermost from_resource call
  module,     \* the module object of the outermost call
  outcome,    \* how the outermost call or the last attribute access ended
  accesses    \* attribute accesses made on the returned module

vars == <<disk, sys_path, stack, call, module, outcome, accesses>>

\* The bytes of a notebook file (SourceFileLoader.get_data).
get_data(file) == IF file = TopFile THEN disk ELSE ReadLib(file)

\* Notebook.create_module: a new module's namespace, updated with self.globals.
create_module(loader) == Update([__doc__ |-> None], loader.globals)

\* module.__dict__[k] = v
Bind(ns, k, v) == [j \in DOMAIN ns \cup {k} |-> IF j = k THEN v ELSE ns[j]]

\* exec_prelude with the update the other way round: the values already in
\* the namespace win.
exec_prelude_defaults_win(ns, globals) ==
  Bind(Update(globals, Bind(ns, "_exception", None)), "_capture", CapturedIO)

\* _exec_module up to the try: _exception = None, update(globals), _capture = out.
exec_prelude(ns, globals) ==
  Bind(Update(Bind(ns, "_exception", None), globals), "_capture", CapturedIO)

\* except_clause with the handler's assignment left out.
except_clause_unrecorded(f, exc) ==
  IF Catches(f.loader.exceptions, exc)
    THEN [f EXCEPT !.phase = "finished", !.exc = exc]
    ELSE [f EXCEPT !.phase = "raising", !.exc = exc]

\* An exception leaves exec_module(loader, module): the except clause of
\* _exec_module records it, or it propagates.
except_clause(f, exc) ==
  IF Catches(f.loader.exceptions, exc)
    THEN [f EXCEPT !.phase = "finished", !.exc = exc,
                   !.ns = Bind(f.ns, "_exception", exc)]
    ELSE [f EXCEPT !.phase = "raising", !.exc = exc]

\* The code object ran to its end: exec_module returns.
Settle(f) ==
  IF f.phase = "exec" /\ f.pc > Len(f.body)
    THEN [f EXCEPT !.phase = "finished"]
    ELSE f

\* _exec_module with get_code called before the try block is entered.
_exec_module_code_outside_try(f, globals) ==
  LET g == [f EXCEPT !.ns = exec_prelude(f.ns, globals), !.at = "get_code"]
      code == source_to_code(get_data(f.file))
  IN  IF code.err # None
        THEN [g EXCEPT !.phase = "raising", !.exc = code.err]
        ELSE Settle([g EXCEPT !.at = "run", !.body = code.body, !.phase = "exec"])

\* Notebook.exec_module(module, **globals) up to the first statement of the
\* notebook: the prelude, then SourceFileLoader.exec_module's get_code.
_exec_module(f, globals) ==
  LET g == [f EXCEPT !.ns = exec_prelude(f.ns, globals), !.at = "get_code"]
      code == source_to_code(get_data(f.file))
  IN  IF code.err # None
        THEN except_clause(g, code.err)
        ELSE Settle([g EXCEPT !.at = "run", !.body = code.body, !.phase = "exec"])

\* from_resource(loader, file, exec=exec, **globals) up to the first statement
\* of the notebook.
from_resource(loader, file, exec, globals) ==
  LET f == [file |-> file, loader |-> loader, globals |-> globals, exec |-> exec,
            kind |-> "load", at |-> "call", phase |-> "finished",
            ns |-> create_module(loader), cls |-> "module",
            body |-> <<>>, pc |-> 1, exc |-> None,
            entered |-> exec]
  IN  IF ~exec THEN f
      ELSE IF loader._lazy
        \* LazyLoader.exec_module(module) takes no keyword arguments
        THEN IF DOMAIN globals # {}
               THEN [f EXCEPT !.phase = "raising", !.exc = TypeErr]
               ELSE [f EXCEPT !.cls = "_LazyModule"]
        ELSE _exec_module(f, globals)

\* modify_sys_path(file).__enter__: the search path extended by the file's
\* directory.
modify_sys_path_enter(path, file) == Append(path, Parent(file))

\* modify_sys_path(file).__exit__: the extension taken back.
modify_sys_path_exit(path) == SubSeq(path, 1, Len(path) - 1)

\* ExitStack_exit that releases only when the block returned.
ExitStack_exit_on_return(f, path) ==
  IF f.entered /\ f.phase = "finished" THEN modify_sys_path_exit(path) ELSE path

\* ExitStack.__exit__ of from_resource's with block: every context entered
\* is exited, whether the block returned or raised.
ExitStack_exit(f, path) ==
  IF f.entered THEN modify_sys_path_exit(path) ELSE path

\* sys.path before any load.
InitialPath == <<"site-packages">>

Top == stack[Len(stack)]
Pop == SubSeq(stack, 1, Len(stack) - 1)
ReplaceTop(f) == [stack EXCEPT ![Len(stack)] = f]

Init ==
  /\ disk \in Documents
  /\ sys_path = InitialPath
  /\ stack = <<>>
  /\ call = [loader |-> Notebook(DefaultExceptions, FALSE, EmptyDict),
             exec |-> TRUE, globals |-> EmptyDict]
  /\ module = [ns |-> EmptyDict, cls |-> "module", runs |-> 0]
  /\ outcome = [status |-> "idle", exc |-> None]
  /\ accesses = 0

(***************************************************************************)
(* The operations.                                                         *)
(***************************************************************************)

\* The effect on the namespace of a statement that neither raises nor loads.
exec_statement(ns, stmt) ==
  CASE stmt.op = "assign" -> Bind(ns, stmt.a, stmt.b)
    [] stmt.op = "store_doc" -> Bind(ns, "__doc__", stmt.a)
    [] stmt.op = "expr_str" -> ns

Running == stack # <<>> /\ Top.phase = "exec"
Current == Top.body[Top.pc]

\* The caller invokes loader.from_filename(TopFile, exec=exec, **globals).
FromResource(loader, exec, globals) ==
  /\ outcome.status = "idle"
  /\ stack' = <<from_resource(loader, TopFile, exec, globals)>>
  /\ sys_path' = IF exec THEN modify_sys_path_enter(sys_path, TopFile) ELSE sys_path
  /\ call' = [loader |-> loader, exec |-> exec, globals |-> globals]
  /\ module' = [module EXCEPT !.runs = IF exec /\ ~loader._lazy THEN 1 ELSE 0]
  /\ outcome' = [status |-> "loading", exc |-> None]
  /\ UNCHANGED <<disk, accesses>>

\* exec(code, module.__dict__): the next statement is an assignment.
ExecAssign ==
  /\ Running
  /\ Current.op = "assign"
  /\ stack' = ReplaceTop(Settle([Top EXCEPT !.ns = exec_statement(Top.ns, Current),
                                            !.pc = @ + 1]))
  /\ UNCHANGED <<disk, sys_path, call, module, outcome, accesses>>

\* The next statement is the string expression of a markdown cell.
ExecMarkdown ==
  /\ Running
  /\ Current.op \in {"expr_str", "store_doc"}
  /\ stack' = ReplaceTop(Settle([Top EXCEPT !.ns = exec_statement(Top.ns, Current),
                                            !.pc = @ + 1]))
  /\ UNCHANGED <<disk, sys_path, call, module, outcome, accesses>>

\* The next statement raises.
ExecRaise ==
  /\ Running
  /\ Current.op = "raise"
  /\ stack' = ReplaceTop(except_clause(Top, Current.a))
  /\ UNCHANGED <<disk, sys_path, call, module, outcome, accesses>>

\* The next statement loads another notebook: Notebook().from_filename(file).
ExecLoad ==
  /\ Running
  /\ Current.op = "load"
  /\ stack' = Append(stack, from_resource(Notebook(DefaultExceptions, FALSE, EmptyDict),
                                          Current.a, TRUE, EmptyDict))
  /\ sys_path' = modify_sys_path_enter(sys_path, Current.a)
  /\ UNCHANGED <<disk, call, module, outcome, accesses>>

\* The innermost load or lazy execution ends normally: the with block of
\* from_resource is left and the module returned.
Return ==
  /\ stack # <<>>
  /\ Top.phase = "finished"
  /\ sys_path' = ExitStack_exit(Top, sys_path)
  /\ IF Len(stack) = 1
       THEN /\ stack' = <<>>
            /\ module' = [ns |-> Top.ns, cls |-> Top.cls, runs |-> module.runs]
            /\ outcome' = [status |-> IF Top.kind = "load" THEN "returned" ELSE "accessed",
                           exc |-> None]
       ELSE /\ stack' = [Pop EXCEPT ![Len(stack) - 1] =
                           Settle([stack[Len(stack) - 1] EXCEPT !.pc = @ + 1])]
            /\ UNCHANGED <<module, outcome>>
  /\ UNCHANGED <<disk, call, accesses>>

\* The innermost load or lazy execution ends with an exception: the with
\* block is left and the exception reaches the statement that made the call.
Unwind ==
  /\ stack # <<>>
  /\ Top.phase = "raising"
  /\ sys_path' = ExitStack_exit(Top, sys_path)
  /\ IF Len(stack) = 1
       THEN /\ stack' = <<>>
            /\ module' = [ns |-> Top.ns, cls |-> Top.cls, runs |-> module.runs]
            /\ outcome' = [status |-> IF Top.kind = "load" THEN "raised" ELSE "access_raised",
                           exc |-> Top.exc]
       ELSE /\ stack' = [Pop EXCEPT ![Len(stack) - 1] =
                           except_clause(stack[Len(stack) - 1], Top.exc)]
            /\ UNCHANGED <<module, outcome>>
  /\ UNCHANGED <<disk, call, accesses>>

Returned == outcome.status \in {"returned", "accessed", "access_raised"}

\* The first attribute access on a module made lazy: _LazyModule.__getattribute__
\* resets the class and calls the loader's exec_module(module).
LazyAccess ==
  /\ Returned
  /\ accesses < MaxAccess
  /\ module.cls = "_LazyModule"
  /\ accesses' = accesses + 1
  /\ module' = [module EXCEPT !.cls = "module", !.runs = @ + 1]
  /\ stack' = <<_exec_module(
                  [file |-> TopFile, loader |-> call.loader, globals |-> EmptyDict,
                   exec |-> TRUE, kind |-> "access", at |-> "call",
                   phase |-> "finished", ns |-> module.ns, cls |-> "module",
                   body |-> <<>>, pc |-> 1, exc |-> None, entered |-> FALSE],
                  EmptyDict)>>
  /\ outcome' = [status |-> "accessing", exc |-> None]
  /\ UNCHANGED <<disk, sys_path, call>>

\* An attribute access on an ordinary module.
DirectAccess ==
  /\ Returned
  /\ accesses < MaxAccess
  /\ module.cls = "module"
  /\ accesses' = accesses + 1
  /\ UNCHANGED <<disk, sys_path, stack, call, module, outcome>>

Next ==
  \/ \E loader \in Loaders, exec \in BOOLEAN, globals \in GlobalsOptions("7") :
       FromResource(loader, exec, globals)
  \/ ExecAssign
  \/ ExecMarkdown
  \/ ExecRaise
  \/ ExecLoad
  \/ Return
  \/ Unwind
  \/ LazyAccess
  \/ DirectAccess

Spec == Init /\ [][Next]_vars

(***************************************************************************)
(* The claims.                                                             *)
(***************************************************************************)

Frames == {stack[i] : i \in DOMAIN stack}

\* The wrapper of f has run its prelude (f is past from_resource's own code).
Wrapped(f) == f.at \in {"get_code", "run"}

\* The namespace the notebook's code starts in.
StartNs(f) == exec_prelude(create_module(f.loader), f.globals)

RECURSIVE RunPrefix(_, _, _)
\* The namespace after statements 1..k of body, none of which raised.
RunPrefix(ns, body, k) ==
  IF k = 0 THEN ns
  ELSE LET before == RunPrefix(ns, body, k - 1) IN
       IF body[k].op \in {"assign", "store_doc", "expr_str"}
         THEN exec_statement(before, body[k])
         ELSE before

\* The exceptions raised by statements of a cell (not by the translator, the
\* compiler or the lazy loader).
CellErrors == {ValueErrorBoom, ImportNbExc}

\* C1: when the error a code cell raises (its own statement, or a load it
\* makes) is of a class in the loader's tolerated set, exec_module does not
\* propagate it: the frame ends normally, _exception is the caught error, the
\* namespace is the one the statements before the raising statement built and
\* nothing after it ran; and a cell error that does leave the outermost load
\* is one its loader does not tolerate.
C1_ToleratedErrorRecorded ==
  /\ \A f \in Frames :
       (f.at = "run" /\ f.exc # None) =>
          /\ f.phase = "finished" <=> Catches(f.loader.exceptions, f.exc)
          /\ f.phase = "finished" =>
               /\ f.pc <= Len(f.body)
               /\ f.ns = Bind(RunPrefix(StartNs(f), f.body, f.pc - 1),
                              "_exception", f.exc)
  /\ (outcome.status \in {"raised", "access_raised"} /\ outcome.exc \in CellErrors)
       => ~Catches(call.loader.exceptions, outcome.exc)

\* C1 witness: a load that returned its module with the ValueError of the
\* second line of a cell recorded, x bound before it and y, assigned after
\* it, never bound.
C1_Witness ==
  /\ outcome.status = "returned"
  /\ "_exception" \in DOMAIN module.ns
  /\ module.ns["_exception"] = ValueErrorBoom
  /\ "x" \in DOMAIN module.ns
  /\ module.ns["x"] = "1"
  /\ "y" \notin DOMAIN module.ns
  /\ disk = [cells |-> <<CodeAssign, CodeRaise>>]

\* C2 (as claimed): under the default configuration no exception a code cell
\* raises is caught: the frame of a default loader never ends normally with
\* an exception recorded.
C2_DefaultToleratesNothing ==
  \A f \in Frames :
    (f.loader.exceptions = DefaultExceptions /\ f.at = "run" /\ f.exc # None)
      => /\ f.phase = "raising"
         /\ f.ns["_exception"] # f.exc

C4_ReservedAttributes ==
  \A f \in Frames :
    (Wrapped(f) /\ f.phase \in {"finished", "raising"}) =>
      /\ {"_exception", "_capture"} \subseteq DOMAIN f.ns
      /\ f.ns["_capture"] = CapturedIO
      /\ (f.phase = "finished" /\ f.exc = None) => f.ns["_exception"] = None

\* The cells of a document the translator knows: markdown and code.
KnownCells(cells) ==
  SelectSeq(cells, LAMBDA c : c.cell_type \in {"markdown", "code"})

\* C5 (as claimed): a cell that is neither markdown nor code, with or without
\* a source, raises nothing and contributes nothing: whenever the document
\* without those cells translates and compiles, the document itself does, to
\* the same body.
C5_UnknownCellsSkipped ==
  \A f \in Frames :
    (Wrapped(f) /\ "cells" \in DOMAIN get_data(f.file)) =>
      LET known == source_to_code([cells |-> KnownCells(get_data(f.file).cells)])
      IN  known.err = None => (f.at = "run" /\ f.body = known.body)

\* The cells of a decoded document (none without a "cells" key).
CellsOf(node) == IF "cells" \in DOMAIN node THEN node.cells ELSE <<>>

RECURSIVE StatementLines(_, _, _)
\* Where each statement of the unified tree comes from, in document order:
\* <<c, n>> for the statement at line n of code cell c, <<c, 0>> for the
\* statement of markdown cell c.
StatementLines(cells, c, n) ==
  IF c > Len(cells) THEN <<>>
  ELSE IF "source" \notin DOMAIN cells[c] THEN StatementLines(cells, c + 1, 1)
  ELSE IF cells[c].cell_type = "markdown"
    THEN <<(<<c, 0>>)>> \o StatementLines(cells, c + 1, 1)
  ELSE IF n > Len(cells[c].source) THEN StatementLines(cells, c + 1, 1)
  ELSE (IF cells[c].source[n].op = "blank" THEN <<>> ELSE <<(<<c, n>>)>>)
       \o StatementLines(cells, c, n + 1)

\* C6: in the unified tree of a notebook, the statement at line n of a code
\* cell's own source carries the line number n plus the cell's lineno
\* metadata (1 when the cell has none), however many cells precede it.
C6_LineNumbers ==
  \A f \in Frames :
    f.at = "run" =>
      LET cells == CellsOf(get_data(f.file))
          from == StatementLines(cells, 1, 1)
      IN  /\ Len(f.body) = Len(from)
          /\ \A k \in DOMAIN from :
               LET cell == cells[from[k][1]]
                   n == from[k][2]
               IN  cell.cell_type = "code" =>
                     /\ f.body[k].op = cell.source[n].op
                     /\ f.body[k].lineno - Get(cell.metadata, "lineno", 1) = n

\* C6 witness: the raise at line 2 of a cell with lineno 5, the second cell
\* of its notebook, is the second statement of the tree, at line 7.
C6_Witness ==
  \E f \in Frames :
    /\ f.at = "run"
    /\ CellsOf(get_data(f.file)) = <<CodeAssign, CodeRaise>>
    /\ f.body[1].lineno = 2
    /\ f.body[2].op = "raise"
    /\ f.body[2].lineno = 7

\* When the notebook's code starts executing.
Starting(f) == f.at = "run" /\ f.phase = "exec" /\ f.pc = 1

Reserved == {"_exception", "_capture"}

\* C7 (as claimed): when the code starts, every name of the call-time globals
\* has its call-time value, and every name of the loader's globals alone has
\* the loader's value.
C7_CallTimeGlobalsWin ==
  \A f \in Frames :
    Starting(f) =>
      \A k \in DOMAIN f.globals \cup DOMAIN f.loader.globals :
        /\ k \in DOMAIN f.ns
        /\ f.ns[k] = IF k \in DOMAIN f.globals THEN f.globals[k]
                     ELSE f.loader.globals[k]

\* C7 (amended): the same for every name other than _exception and _capture,
\* which the wrapper sets itself: _capture is the capture record whatever the
\* mappings hold, and _exception is the call-time value when one is passed
\* and None otherwise, whatever the loader's globals hold.
C7_CallTimeGlobalsWinUnlessReserved ==
  \A f \in Frames :
    Starting(f) =>
      /\ \A k \in (DOMAIN f.globals \cup DOMAIN f.loader.globals) \ Reserved :
           /\ k \in DOMAIN f.ns
           /\ f.ns[k] = IF k \in DOMAIN f.globals THEN f.globals[k]
                        ELSE f.loader.globals[k]
      /\ f.ns["_capture"] = CapturedIO
      /\ f.ns["_exception"] = Get(f.globals, "_exception", None)

\* C7 witness: x configured as 9 on the loader and passed as 7 at the call.
C7_Witness ==
  \E f \in Frames :
    /\ Starting(f)
    /\ "x" \in DOMAIN f.globals
    /\ "x" \in DOMAIN f.loader.globals
    /\ f.loader.globals["x"] = "9"
    /\ f.ns["x"] = "7"

\* A step that executes the statement of a markdown cell.
MarkdownStep == Running /\ Current.op \in {"expr_str", "store_doc"}

\* C8 (as claimed): executing the statement of a markdown cell, at any
\* position, leaves the namespace as it was.
C8_MarkdownChangesNothing ==
  [][MarkdownStep => stack'[Len(stack)].ns = Top.ns]_vars

\* C8 (amended): executing the statement of a markdown cell leaves the
\* namespace as it was unless it is the first statement of the module; the
\* first statement is the module's docstring, and executing it binds __doc__
\* to the cell's text and nothing else.
C8_MarkdownChangesOnlyDoc ==
  [][MarkdownStep =>
       stack'[Len(stack)].ns = IF Top.pc = 1
                                 THEN Bind(Top.ns, "__doc__", Current.a)
                                 ELSE Top.ns]_vars

\* C8 witness: a markdown cell after a code cell has been executed, and
\* __doc__ is still None.
C8_Witness ==
  \E f \in Frames :
    /\ f.at = "run"
    /\ Len(f.body) >= 2
    /\ f.body[2].op = "expr_str"
    /\ f.pc > 2
    /\ f.ns["__doc__"] = None
    /\ f.ns["x"] = "1"

\* C9 (as claimed): with lazy=True a load with exec returns the module, with
\* or without call-time globals, with nothing executed; the wrapper runs on
\* the first attribute access and at most once.
C9_LazyRunsOnceOnAccess ==
  (call.loader._lazy /\ call.exec) =>
    /\ outcome.status # "raised"
    /\ module.runs <= 1
    /\ (outcome.status = "returned" /\ accesses = 0) =>
         (module.runs = 0 /\ Reserved \cap DOMAIN module.ns \subseteq DOMAIN call.loader.globals)
    /\ (outcome.status \in {"accessed", "access_raised"}) => module.runs = 1

RECURSIVE EnteredDirs(_, _)
\* The directories the loads in progress have put on the search path,
\* outermost first.
EnteredDirs(frames, i) ==
  IF i > Len(frames) THEN <<>>
  ELSE (IF frames[i].entered THEN <<Parent(frames[i].file)>> ELSE <<>>)
       \o EnteredDirs(frames, i + 1)

\* C10: the search path is the path before any load extended by the
\* directories of the loads in progress, in stack order: a load that has
\* returned or raised, nested or not, has left the path as it found it.
C10_PathRestored == sys_path = InitialPath \o EnteredDirs(stack, 1)

\* C10 witness: a load whose first cell loads a notebook that raises has
\* itself raised that error, and nothing is in progress.
C10_Witness ==
  /\ outcome.status = "raised"
  /\ outcome.exc = ValueErrorBoom
  /\ call.exec
  /\ stack = <<>>
  /\ "cells" \in DOMAIN disk
  /\ Len(disk.cells) >= 1
  /\ disk.cells[1] = CodeLoadBoom

====
